---- MODULE Spec2Model ----
(***************************************************************************)
(* The notebooks of the NVAITC repository, run by a Jupyter kernel.        *)
(*                                                                         *)
(* A notebook is the sequence of the statements of its code cells, in cell *)
(* order.  A kernel runs one notebook from a fresh namespace, statement by *)
(* statement, and stops at the first exception ("Run All").  Third-party   *)
(* library calls (NumPy, CuPy, cuML, scikit-learn, XGBoost, Dask, pandas)  *)
(* are the environment: their results are drawn from small sets and they   *)
(* may raise.  What the notebooks compute themselves (elapsed times,       *)
(* speed-ups, the comparison verdicts, the bound names, the files written  *)
(* and read) is computed as the code computes it.                          *)
(***************************************************************************)
EXTENDS Integers, Sequences, FiniteSets, TLC

VARIABLES
    nb,          \* the notebook the kernel is running
    pc,          \* index of the next statement of Prog(nb)
    status,      \* "running" | "done" | "error"
    exc,         \* the exception that stopped the run: [type, by, ln]
    bound,       \* names bound in the kernel's global namespace
    frame,       \* call stack: <<>> at cell level, <<locals>> inside a helper function
    clock,       \* time.time(), in ticks since the kernel started
    gpuPending,  \* kernels enqueued on the CUDA null stream and not yet completed
    mem,         \* values of the names whose values the notebooks compute with
    np_elapsed,  \* history: e - s as read at the end of the latest NumPy timed section
    out,         \* the latest line printed
    disk,        \* files on disk: path -> [content, writer]
    written,     \* paths written by the current session
    lastRead     \* the latest file read of the current session: [path, writer]

vars == <<nb, pc, status, exc, bound, frame, clock, gpuPending, mem,
          np_elapsed, out, disk, written, lastRead>>

(***************************************************************************)
(* Bounds of the model.                                                    *)
(***************************************************************************)
\* longest duration, in clock ticks, of one NumPy operation or one GPU kernel
MaxDur == 1

(***************************************************************************)
(* Statements.                                                             *)
(*   ln  line of the statement in the notebook file                        *)
(*   k   kind: which operation of the kernel executes it                   *)
(*   a   argument of the kind (a section, a path, a target name)           *)
(*   r   names the statement reads                                         *)
(*   w   names the statement binds                                         *)
(***************************************************************************)
St(ln, k, a, r, w) == [ln |-> ln, k |-> k, a |-> a, r |-> r, w |-> w]

Import(ln, name) == St(ln, "import", "", {}, {name})
Assign(ln, r, w) == St(ln, "assign", "", r, w)
LibCall(ln, r, w) == St(ln, "libcall", "", r, w)
Def(ln, name) == St(ln, "def", "", {}, {name})

\* s = time.time()
TimeS(ln) == St(ln, "time_s", "", {"time"}, {"s"})
\* e = time.time(), in the "# Numpy and CPU" or the "# CuPy and GPU" section
TimeE(ln, sec) == St(ln, "time_e", sec, {"time"}, {"e"})
\* an in-place NumPy array operation: x_cpu *= 5, x_cpu *= x_cpu, ...
NumpyOp(ln, r) == St(ln, "np_op", "", r, {"x_cpu"})
\* an in-place CuPy array operation: x_gpu *= 5, x_gpu *= x_gpu, ...
CupyOp(ln, r) == St(ln, "cp_op", "", r, {"x_gpu"})
\* x_cpu = np.ones(shape)
NumpyOnes(ln, shape) ==
    [ln |-> ln, k |-> "np_ones", a |-> "", r |-> {"np"}, w |-> {"x_cpu"},
     shape |-> shape]
\* x_gpu = cp.ones(shape)
CupyOnes(ln, shape) ==
    [ln |-> ln, k |-> "cp_ones", a |-> "", r |-> {"cp"}, w |-> {"x_gpu"},
     shape |-> shape]
\* cp.cuda.Stream.null.synchronize()
Synchronize(ln) == St(ln, "sync", "", {"cp"}, {})
\* cpu_time = e - s   /   gpu_time = e - s
Elapsed(ln, target) == St(ln, "elapsed", target, {"e", "s"}, {target})
\* print(cpu_time)   /   print(gpu_time)
PrintTime(ln, name) == St(ln, "print_time", name, {name}, {})
\* print(cpu_time/gpu_time)
PrintSpeedup(ln) == St(ln, "print_speedup", "", {"cpu_time", "gpu_time"}, {})

(***************************************************************************)
(* CuPy/Intro_to_CuPy.ipynb                                                *)
(***************************************************************************)
CuPy_imports ==
    << Import(48, "np"), Import(49, "cp"), Import(50, "time") >>

\* "## Array Creation": np.ones((1000,1000,100)) against cp.ones((1000,1000,100))
CuPy_ArrayCreation ==
    << TimeS(80), NumpyOnes(81, <<1000, 1000, 100>>), TimeE(82, "cpu"),
       Elapsed(83, "cpu_time"), PrintTime(84, "cpu_time"),
       TimeS(87), CupyOnes(88, <<1000, 1000, 100>>), Synchronize(89), TimeE(90, "gpu"),
       Elapsed(91, "gpu_time"), PrintTime(92, "gpu_time"),
       PrintSpeedup(94) >>

\* "## Mathematical Operations": x *= 5
CuPy_MathematicalOperations ==
    << TimeS(127), NumpyOp(128, {"x_cpu"}), TimeE(129, "cpu"),
       Elapsed(130, "cpu_time"), PrintTime(131, "cpu_time"),
       TimeS(134), CupyOp(135, {"x_gpu"}), Synchronize(136), TimeE(137, "gpu"),
       Elapsed(138, "gpu_time"), PrintTime(139, "gpu_time"),
       PrintSpeedup(141) >>

CuPy_MultipleArrays_nosync ==
    << TimeS(174), NumpyOp(175, {"x_cpu"}), NumpyOp(176, {"x_cpu"}),
       NumpyOp(177, {"x_cpu"}), TimeE(178, "cpu"),
       Elapsed(179, "cpu_time"), PrintTime(180, "cpu_time"),
       TimeS(183), CupyOp(184, {"x_gpu"}), CupyOp(185, {"x_gpu"}),
       CupyOp(186, {"x_gpu"}), TimeE(188, "gpu"),
       Elapsed(189, "gpu_time"), PrintTime(190, "gpu_time"),
       PrintSpeedup(192) >>

\* "## Working with Multiple Arrays": x *= 5; x *= x; x += x
CuPy_MultipleArrays ==
    << TimeS(174), NumpyOp(175, {"x_cpu"}), NumpyOp(176, {"x_cpu"}),
       NumpyOp(177, {"x_cpu"}), TimeE(178, "cpu"),
       Elapsed(179, "cpu_time"), PrintTime(180, "cpu_time"),
       TimeS(183), CupyOp(184, {"x_gpu"}), CupyOp(185, {"x_gpu"}),
       CupyOp(186, {"x_gpu"}), Synchronize(187), TimeE(188, "gpu"),
       Elapsed(189, "gpu_time"), PrintTime(190, "gpu_time"),
       PrintSpeedup(192) >>

\* "## n = 100,00,00": create (100,100,100)
CuPy_n100_create ==
    << TimeS(226), NumpyOnes(227, <<100, 100, 100>>), TimeE(228, "cpu"),
       Elapsed(229, "cpu_time"), PrintTime(230, "cpu_time"),
       TimeS(233), CupyOnes(234, <<100, 100, 100>>), Synchronize(235), TimeE(236, "gpu"),
       Elapsed(237, "gpu_time"), PrintTime(238, "gpu_time"),
       PrintSpeedup(240) >>

\* n = 100,00,00: multiply by 5
CuPy_n100_multiply ==
    << TimeS(260), NumpyOp(261, {"x_cpu"}), TimeE(262, "cpu"),
       Elapsed(263, "cpu_time"), PrintTime(264, "cpu_time"),
       TimeS(267), CupyOp(268, {"x_gpu"}), Synchronize(269), TimeE(270, "gpu"),
       Elapsed(271, "gpu_time"), PrintTime(272, "gpu_time"),
       PrintSpeedup(274) >>

\* "## n = 1000,00,00": create (1000,100,100)
CuPy_n1000_create ==
    << TimeS(301), NumpyOnes(302, <<1000, 100, 100>>), TimeE(303, "cpu"),
       Elapsed(304, "cpu_time"), PrintTime(305, "cpu_time"),
       TimeS(308), CupyOnes(309, <<1000, 100, 100>>), Synchronize(310), TimeE(311, "gpu"),
       Elapsed(312, "gpu_time"), PrintTime(313, "gpu_time"),
       PrintSpeedup(315) >>

\* n = 1000,00,00: multiply by 5.  The cell has no "cpu_time = e - s".
CuPy_n1000_multiply ==
    << TimeS(335), NumpyOp(336, {"x_cpu"}), TimeE(337, "cpu"),
       PrintTime(338, "cpu_time"),
       TimeS(341), CupyOp(342, {"x_gpu"}), Synchronize(343), TimeE(344, "gpu"),
       Elapsed(345, "gpu_time"), PrintTime(346, "gpu_time"),
       PrintSpeedup(348) >>

\* "# n = 1000,000,00": create (1000,1000,100), then multiply by 5 in the same
\* cell.  The multiply part has no "cpu_time = e - s".
CuPy_n10000 ==
    << TimeS(378), NumpyOnes(379, <<1000, 1000, 100>>), TimeE(380, "cpu"),
       Elapsed(381, "cpu_time"), PrintTime(382, "cpu_time"),
       TimeS(385), CupyOnes(386, <<1000, 1000, 100>>), Synchronize(387), TimeE(388, "gpu"),
       Elapsed(389, "gpu_time"), PrintTime(390, "gpu_time"),
       PrintSpeedup(392),
       TimeS(395), NumpyOp(396, {"x_cpu"}), TimeE(397, "cpu"),
       PrintTime(398, "cpu_time"),
       TimeS(401), CupyOp(402, {"x_gpu"}), Synchronize(403), TimeE(404, "gpu"),
       Elapsed(405, "gpu_time"), PrintTime(406, "gpu_time"),
       PrintSpeedup(408) >>

Intro_to_CuPy ==
    CuPy_imports \o CuPy_ArrayCreation \o CuPy_MathematicalOperations
    \o CuPy_MultipleArrays \o CuPy_n100_create \o CuPy_n100_multiply
    \o CuPy_n1000_create \o CuPy_n1000_multiply \o CuPy_n10000

(***************************************************************************)
(* More statement shapes.                                                  *)
(***************************************************************************)
\* a bare expression or a print of unmodelled values: reads names, binds none
Expr(ln, r) == St(ln, "expr", "", r, {})
\* name = 'a path literal'
Path(ln, name, literal) == St(ln, "path", literal, {}, {name})
\* a call of a helper function defined in the notebook: the parameters are
\* bound in a new frame, the statements of the body follow
Call(ln, r, params) == St(ln, "call", "", r, params)
\* return local: the frame is dropped, the caller binds target
Return(ln, local, target) == St(ln, "return", local, {local}, {target})
\* print('... %s' % ('equal' if passed else 'NOT equal'))
PrintPassed(ln, what) == St(ln, "print_passed", what, {"passed"}, {})
\* %%time, the first line of a timed cell
MagicTime(ln) == St(ln, "magic_time", "", {}, {})
\* the end of a %%time cell, after its last line ln: "Wall time: .." is printed
WallTime(ln) == St(ln, "wall_time", "", {}, {})
\* name = np.random.random(..) / cupy.random.random(..) / cupy.array(x) / an
\* arithmetic expression of such arrays: a new array of library lib
NewArray(ln, lib, r, name) == St(ln, "new_array", lib, r, {name})
\* name = da.from_array(src, chunks=.., [asarray=False]); asarray is "False"
\* or, when the call does not pass it, "default"
FromArray(ln, src, name, asarray) ==
    St(ln, "from_array", asarray, {"da", src}, {name})
\* u, s, v = np.linalg.svd(arg) / da.linalg.svd(arg); module is "np" or "da"
Svd(ln, module, arg) == St(ln, "svd", module, {module, arg}, {"u", "s", "v"})
\* u, s, v = dask.compute(u, s, v)
Compute(ln) == St(ln, "compute", "", {"dask", "u", "s", "v"}, {"u", "s", "v"})

(***************************************************************************)
(* unnamed/part_000: the nearest neighbours notebook (cuML against         *)
(* scikit-learn).                                                          *)
(***************************************************************************)
\* n_samples = 2**17
n_samples == 2 ^ 17
\* n_neighbors = 4
n_neighbors == 4

KNN_setup ==
    << Import(37, "cudf"), Import(38, "np"), Import(41, "make_blobs"),
       Import(44, "cuNearestNeighbors"), Import(45, "skNearestNeighbors"),
       Assign(61, {}, {"n_samples"}), Assign(62, {}, {"n_features"}),
       Assign(64, {}, {"n_query"}), Assign(65, {}, {"n_neighbors"}),
       Assign(66, {}, {"random_state"}),
       LibCall(94, {"make_blobs", "n_samples", "n_features", "random_state"},
               {"device_data", "_"}),
       LibCall(99, {"cudf", "device_data"}, {"device_data"}),
       LibCall(110, {"device_data"}, {"host_data"}) >>

KNN_models ==
    << LibCall(148, {"skNearestNeighbors"}, {"knn_sk"}),
       LibCall(150, {"knn_sk", "host_data"}, {}),
       St(169, "kneighbors", "sk",
          {"knn_sk", "host_data", "n_query", "n_neighbors"}, {"D_sk", "I_sk"}),
       LibCall(207, {"cuNearestNeighbors"}, {"knn_cuml"}),
       LibCall(208, {"knn_cuml", "device_data"}, {}),
       St(227, "kneighbors", "cuml",
          {"knn_cuml", "device_data", "n_query", "n_neighbors"},
          {"D_cuml", "I_cuml"}) >>

KNN_compare_distances ==
    << Expr(264, {"D_sk"}), Expr(405, {"D_cuml"}),
       St(422, "allclose", "", {"np", "D_sk", "D_cuml"}, {"passed"}),
       PrintPassed(423, "knn_distances") >>

KNN_compare_indices ==
    << Expr(456, {"I_sk"}), Expr(597, {"I_cuml"}),
       St(614, "np_sort", "sk", {"np", "I_sk"}, {"sk_sorted"}),
       St(615, "np_sort", "cuml", {"np", "I_cuml"}, {"cuml_sorted"}),
       St(617, "knn_diff", "", {"sk_sorted", "cuml_sorted"}, {"diff"}),
       St(619, "knn_passed", "", {"diff", "n_samples"}, {"passed"}),
       PrintPassed(620, "knn_indexes") >>

nearest_neighbors_demo ==
    KNN_setup \o KNN_models \o KNN_compare_distances \o KNN_compare_indices

(***************************************************************************)
(* Notebooks/kmeans_demo.ipynb, first notebook of the file: k-means.        *)
(***************************************************************************)
KMeans_setup ==
    << Import(37, "cudf"), Import(38, "cupy"), Import(39, "plt"),
       Import(41, "cuKMeans"), Import(42, "make_blobs"),
       Import(45, "skKMeans"), Import(46, "adjusted_rand_score"),
       LibCall(48, {}, {}),
       Assign(64, {}, {"n_samples"}), Assign(65, {}, {"n_features"}),
       Assign(67, {}, {"n_clusters"}), Assign(68, {}, {"random_state"}),
       LibCall(85, {"make_blobs", "n_samples", "n_features", "n_clusters",
                    "random_state"}, {"device_data", "device_labels"}),
       LibCall(91, {"cudf", "device_data"}, {"device_data"}),
       LibCall(92, {"cudf", "device_labels"}, {"device_labels"}),
       LibCall(103, {"device_data"}, {"host_data"}),
       LibCall(104, {"device_labels"}, {"host_labels"}) >>

KMeans_fit ==
    << LibCall(142, {"skKMeans", "n_clusters", "random_state"}, {"kmeans_sk"}),
       LibCall(147, {"kmeans_sk", "host_data"}, {}),
       LibCall(185, {"cuKMeans", "n_clusters", "random_state"}, {"kmeans_cuml"}),
       LibCall(190, {"kmeans_cuml", "device_data"}, {}) >>

KMeans_visualize ==
    << LibCall(223, {"plt"}, {"fig"}),
       LibCall(225, {"plt", "host_data", "host_labels"}, {}),
       LibCall(228, {"kmeans_sk"}, {"centers_sk"}),
       LibCall(229, {"plt", "centers_sk"}, {}),
       LibCall(234, {"kmeans_cuml"}, {"centers_cuml"}),
       LibCall(235, {"plt", "cupy", "centers_cuml"}, {}),
       LibCall(239, {"plt"}, {}),
       LibCall(241, {"plt"}, {}) >>

KMeans_compare ==
    << St(267, "ari", "cuml_score",
          {"adjusted_rand_score", "host_labels", "kmeans_cuml"}, {"cuml_score"}),
       St(268, "ari", "sk_score",
          {"adjusted_rand_score", "host_labels", "kmeans_sk"}, {"sk_score"}),
       St(285, "threshold", "", {}, {"threshold"}),
       St(287, "km_passed", "", {"cuml_score", "sk_score", "threshold"},
          {"passed"}),
       PrintPassed(288, "kmeans") >>

kmeans_demo ==
    KMeans_setup \o KMeans_fit \o KMeans_visualize \o KMeans_compare

(***************************************************************************)
(* Notebooks/kmeans_demo.ipynb, second notebook of the file:               *)
(* Forest_Inference_Demo (XGBoost against the Forest Inference Library).   *)
(***************************************************************************)
FIL_imports ==
    << Import(369, "np"), Import(370, "os"), Import(374, "has_xgboost"),
       Import(375, "ForestInference"), Import(378, "make_classification"),
       Import(379, "accuracy_score"), Import(380, "train_test_split") >>

FIL_check_xgboost_nobind ==
    << St(412, "check_xgb", "", {"has_xgboost"}, {}) >>

\* if has_xgboost(): import xgboost as xgb / else: raise ImportError(..)
FIL_check_xgboost ==
    << St(412, "check_xgb", "", {"has_xgboost"}, {"xgb"}) >>

FIL_helpers ==
    << Def(451, "train_xgboost_model"), Def(498, "predict_xgboost_model") >>

FIL_parameters_csvpath ==
    << Assign(539, {}, {"n_rows"}), Assign(540, {}, {"n_columns"}),
       Assign(541, {}, {"n_categories"}),
       LibCall(544, {"np"}, {"random_state"}),
       Path(547, "model_path", "pima-indians-diabetes.csv"),
       Assign(550, {}, {"num_rounds"}) >>

FIL_parameters ==
    << Assign(539, {}, {"n_rows"}), Assign(540, {}, {"n_columns"}),
       Assign(541, {}, {"n_categories"}),
       LibCall(544, {"np"}, {"random_state"}),
       Path(547, "model_path", "xgb.model"),
       Assign(550, {}, {"num_rounds"}) >>

FIL_data ==
    << LibCall(582, {"make_classification", "n_rows", "n_columns",
                     "n_categories", "random_state"}, {"X", "y"}),
       Assign(587, {}, {"train_size"}),
       LibCall(590, {"X", "np"}, {"X"}),
       LibCall(591, {"y", "np"}, {"y"}),
       LibCall(594, {"train_test_split", "X", "y", "train_size"},
               {"X_train", "X_validation", "y_train", "y_validation"}) >>

train_xgboost_model_nosave ==
    << Assign(454, {}, {"params"}),
       LibCall(458, {"xgb", "X_train", "y_train"}, {"dtrain"}),
       St(461, "xgb_train", "", {"xgb", "params", "dtrain", "num_rounds"},
          {"bst"}),
       Return(466, "bst", "xgboost_model") >>

\* the body of def train_xgboost_model(X_train, y_train, num_rounds, model_path)
train_xgboost_model ==
    << Assign(454, {}, {"params"}),
       LibCall(458, {"xgb", "X_train", "y_train"}, {"dtrain"}),
       St(461, "xgb_train", "", {"xgb", "params", "dtrain", "num_rounds"},
          {"bst"}),
       St(464, "save_model", "", {"bst", "model_path"}, {}),
       Return(466, "bst", "xgboost_model") >>

\* the body of def predict_xgboost_model(X_validation, y_validation, xgb_model)
predict_xgboost_model ==
    << LibCall(501, {"xgb", "X_validation", "y_validation"}, {"dvalidation"}),
       St(503, "xgb_predict", "", {"xgb_model", "dvalidation"}, {"xgb_preds"}),
       St(506, "around", "", {"np", "xgb_preds"}, {"xgb_preds"}),
       Return(508, "xgb_preds", "trained_model_preds") >>

\* xgboost_model = train_xgboost_model(X_train, y_train, num_rounds, model_path)
FIL_train ==
    << Call(646, {"train_xgboost_model", "X_train", "y_train", "num_rounds",
                  "model_path"},
            {"X_train", "y_train", "num_rounds", "model_path"}) >>
    \o train_xgboost_model

\* trained_model_preds = predict_xgboost_model(X_validation, y_validation, xgboost_model)
FIL_predict_xgboost ==
    << Call(683, {"predict_xgboost_model", "X_validation", "y_validation",
                  "xgboost_model"},
            {"X_validation", "y_validation", "xgb_model"}) >>
    \o predict_xgboost_model

\* fm = ForestInference.load(filename=model_path, .., output_class=True, threshold=0.50, ..)
FIL_load ==
    << St(741, "fil_load", "", {"ForestInference", "model_path"}, {"fm"}) >>

\* fil_preds = fm.predict(X_validation)
FIL_predict ==
    << St(776, "fil_predict", "", {"fm", "X_validation"}, {"fil_preds"}) >>

FIL_evaluate ==
    << Expr(807, {"trained_model_preds"}), Expr(808, {"fil_preds"}),
       St(810, "print_same", "fil_same", {"trained_model_preds", "fil_preds"},
          {}) >>

Forest_Inference_Demo ==
    FIL_imports \o FIL_check_xgboost \o FIL_helpers \o FIL_parameters
    \o FIL_data \o FIL_train \o FIL_predict_xgboost \o FIL_load
    \o FIL_predict \o FIL_evaluate

(***************************************************************************)
(* unnamed/part_001: the feature selection notebook.                       *)
(***************************************************************************)
FS_load_data_nofilename ==
    << Assign(44, {}, {"names"}),
       St(45, "read_csv", "", {"read_csv", "filename", "names"}, {"dataframe"}),
       LibCall(55, {"dataframe"}, {"array"}),
       St(56, "slice_X", "", {"array"}, {"X"}),
       LibCall(57, {"array"}, {"Y"}) >>

\* filename = 'pima-indians-diabetes.csv'; dataframe = read_csv(filename, names=names)
FS_load_data ==
    << Path(43, "filename", "pima-indians-diabetes.csv"),
       Assign(44, {}, {"names"}),
       St(45, "read_csv", "", {"read_csv", "filename", "names"}, {"dataframe"}),
       LibCall(55, {"dataframe"}, {"array"}),
       St(56, "slice_X", "", {"array"}, {"X"}),
       LibCall(57, {"array"}, {"Y"}) >>

FS_univariate ==
    << Import(29, "read_csv"), Import(30, "set_printoptions"),
       Import(31, "SelectKBest"), Import(32, "f_classif") >>
    \o FS_load_data \o
    << St(81, "skb_new", "", {"SelectKBest", "f_classif"}, {"test"}),
       St(82, "skb_fit", "", {"test", "X", "Y"}, {"fit"}),
       LibCall(85, {"set_printoptions"}, {}),
       Expr(86, {"fit"}),
       St(87, "skb_transform", "", {"fit", "X"}, {"features"}),
       Expr(90, {"features"}) >>

FS_rfe ==
    << Import(123, "read_csv"), Import(124, "RFE"),
       Import(125, "LogisticRegression"),
       Assign(137, {}, {"names"}),
       St(139, "read_csv", "", {"read_csv", "filename", "names"}, {"dataframe"}),
       LibCall(141, {"dataframe"}, {"array"}),
       St(142, "slice_X", "", {"array"}, {"X"}),
       LibCall(143, {"array"}, {"Y"}),
       LibCall(178, {"LogisticRegression"}, {"model"}),
       LibCall(179, {"RFE", "model"}, {"rfe"}),
       St(180, "other_fit", "", {"rfe", "X", "Y"}, {"fit"}),
       Expr(181, {"fit"}), Expr(182, {"fit"}), Expr(183, {"fit"}) >>

FS_pca ==
    << Import(215, "numpy"), Import(216, "read_csv"), Import(217, "PCA"),
       Assign(229, {}, {"names"}),
       St(231, "read_csv", "", {"read_csv", "filename", "names"}, {"dataframe"}),
       LibCall(233, {"dataframe"}, {"array"}),
       St(234, "slice_X", "", {"array"}, {"X"}),
       LibCall(235, {"array"}, {"Y"}),
       LibCall(260, {"PCA"}, {"pca"}),
       St(261, "other_fit", "", {"pca", "X"}, {"fit"}),
       Expr(264, {"fit"}), Expr(265, {"fit"}) >>

FS_importance ==
    << Import(285, "read_csv"), Import(286, "ExtraTreesClassifier"),
       Assign(298, {}, {"names"}),
       St(300, "read_csv", "", {"read_csv", "filename", "names"}, {"dataframe"}),
       LibCall(302, {"dataframe"}, {"array"}),
       St(303, "slice_X", "", {"array"}, {"X"}),
       LibCall(304, {"array"}, {"Y"}),
       LibCall(323, {"ExtraTreesClassifier"}, {"model"}),
       LibCall(324, {"model", "X", "Y"}, {}),
       Expr(325, {"model"}) >>

feature_selection ==
    FS_univariate \o FS_rfe \o FS_pca \o FS_importance

(***************************************************************************)
(* CuPy/Dask_and__array_function__protocol.ipynb                           *)
(***************************************************************************)
Dask_intro ==
    << Import(18, "np"), Import(19, "da"),
       NewArray(21, "numpy", {"np"}, "x"),
       FromArray(23, "x", "d", "default"),
       Svd(25, "np", "d"),
       Import(41, "np"), Import(42, "cupy"), Import(43, "da"),
       NewArray(45, "cupy", {"cupy"}, "x"),
       FromArray(47, "x", "d", "default"),
       Svd(49, "np", "d") >>

Dask_arrays ==
    << Import(65, "np"), Import(66, "cupy"), Import(67, "da"),
       NewArray(69, "numpy", {"np"}, "x"),
       NewArray(70, "cupy", {"cupy", "x"}, "y"),
       FromArray(72, "x", "dx", "default"),
       FromArray(73, "y", "dy", "False") >>

Dask_svd_nodaskimport ==
    << MagicTime(104), Svd(106, "np", "x"), WallTime(106),
       Svd(125, "da", "dx"), Compute(126),
       MagicTime(153), Svd(155, "np", "dx"), Compute(156), WallTime(156),
       MagicTime(186), Svd(188, "np", "y"), WallTime(188),
       MagicTime(213), Svd(215, "np", "dy"), Compute(216), WallTime(216) >>

Dask_svd_nocompute ==
    << MagicTime(104), Svd(106, "np", "x"), WallTime(106),
       Import(123, "dask"),
       Svd(125, "da", "dx"), Compute(126),
       MagicTime(153), Svd(155, "np", "dx"), Compute(156), WallTime(156),
       MagicTime(186), Svd(188, "np", "y"), WallTime(188),
       MagicTime(213), Svd(215, "np", "dy"), WallTime(216) >>

\* the SVD cells: x with NumPy, dx with da.linalg.svd, dx, y and dy with
\* np.linalg.svd; all but the da.linalg.svd cell are %%time cells
Dask_svd ==
    << MagicTime(104), Svd(106, "np", "x"), WallTime(106),
       Import(123, "dask"),
       Svd(125, "da", "dx"), Compute(126),
       MagicTime(153), Svd(155, "np", "dx"), Compute(156), WallTime(156),
       MagicTime(186), Svd(188, "np", "y"), WallTime(188),
       MagicTime(213), Svd(215, "np", "dy"), Compute(216), WallTime(216) >>

Dask_sklearn ==
    << Import(241, "np"), Import(242, "plt"), Import(243, "LinearRegression"),
       Assign(245, {}, {"N"}),
       NewArray(248, "numpy", {"N", "np"}, "x"),
       NewArray(251, "numpy", {"x", "np"}, "y"),
       LibCall(254, {"LinearRegression"}, {"est"}),
       MagicTime(281), LibCall(283, {"est", "x", "y"}, {}), WallTime(283),
       MagicTime(300), LibCall(303, {"np", "N"}, {"x_new"}),
       LibCall(304, {"est", "x_new", "np"}, {"y_new"}), WallTime(304),
       LibCall(327, {"plt"}, {}),
       LibCall(328, {"plt"}, {"ax"}),
       LibCall(329, {"ax", "x", "y"}, {}),
       LibCall(330, {"ax", "x_new", "y_new"}, {}),
       LibCall(332, {"ax"}, {}),
       LibCall(334, {"ax"}, {}),
       LibCall(335, {"ax"}, {}),
       LibCall(337, {"ax"}, {}),
       LibCall(339, {"plt"}, {}) >>

Dask_glm ==
    << Import(356, "np"), Import(357, "LinearRegression"), Import(358, "plt"),
       Assign(360, {}, {"N"}),
       NewArray(363, "numpy", {"N", "np"}, "x"),
       NewArray(366, "numpy", {"x", "np"}, "y"),
       LibCall(369, {"LinearRegression"}, {"est"}),
       MagicTime(411), LibCall(413, {"est", "x", "y"}, {}), WallTime(413),
       MagicTime(430), LibCall(433, {"np", "N"}, {"x_new"}),
       LibCall(434, {"est", "x_new", "np"}, {"y_new"}), WallTime(434) >>

Dask_and__array_function__protocol ==
    Dask_intro \o Dask_arrays \o Dask_svd \o Dask_sklearn \o Dask_glm

(***************************************************************************)
(* Notebooks/Others/Principal Component Analysis from Scratch.ipynb        *)
(***************************************************************************)
PCA_manual ==
    << Import(21, "array"), Import(22, "mean"), Import(23, "cov"),
       Import(24, "eig"),
       LibCall(53, {"array"}, {"A"}), Expr(54, {"A"}),
       LibCall(81, {"mean", "A"}, {"M"}), Expr(82, {"M"}),
       LibCall(103, {"A", "M"}, {"C"}), Expr(104, {"C"}),
       LibCall(137, {"cov", "C"}, {"V"}), Expr(138, {"V"}),
       LibCall(174, {"eig", "V"}, {"values", "vectors"}),
       Expr(175, {}), Expr(176, {"vectors"}), Expr(177, {}),
       Expr(178, {"values"}),
       LibCall(199, {"vectors", "C"}, {"P"}), Expr(200, {"P"}) >>

PCA_reusable ==
    << Import(241, "array"), Import(242, "PCA"),
       LibCall(263, {"array"}, {"A"}), Expr(264, {"A"}),
       LibCall(275, {"PCA"}, {"pca"}),
       LibCall(297, {"pca", "A"}, {}),
       Expr(318, {"pca"}), Expr(319, {"pca"}),
       LibCall(340, {"pca", "A"}, {"B"}), Expr(341, {"B"}) >>

Principal_Component_Analysis_from_Scratch ==
    PCA_manual \o PCA_reusable

(***************************************************************************)
(* The notebooks of the repository.                                        *)
(***************************************************************************)
Notebooks ==
    {"Intro_to_CuPy", "Dask_and__array_function__protocol",
     "nearest_neighbors_demo", "kmeans_demo", "Forest_Inference_Demo",
     "feature_selection", "Principal_Component_Analysis_from_Scratch"}

Prog(n) ==
    CASE n = "Intro_to_CuPy" -> Intro_to_CuPy
      [] n = "Dask_and__array_function__protocol" ->
            Dask_and__array_function__protocol
      [] n = "nearest_neighbors_demo" -> nearest_neighbors_demo
      [] n = "kmeans_demo" -> kmeans_demo
      [] n = "Forest_Inference_Demo" -> Forest_Inference_Demo
      [] n = "feature_selection" -> feature_selection
      [] n = "Principal_Component_Analysis_from_Scratch" ->
            Principal_Component_Analysis_from_Scratch

(***************************************************************************)
(* Values the library calls return, and what the notebooks compute from    *)
(* them.                                                                   *)
(***************************************************************************)
\* query rows of the k-NN index arrays (the notebook queries n_query = 2**13 rows)
NQuery == 2
\* validation rows the two forest models predict (the notebook has 2000)
NRows == 2
\* raw predictions are multiples of 1/(2*HalfSteps) in [0, 1]
HalfSteps == 2
\* adjusted Rand scores range over the ScoreSpan + 1 highest score values
ScoreSpan == 3

\* one row of neighbour indices, nearest first: n_neighbors distinct samples
RowA == [j \in 1..n_neighbors |-> j - 1]
\* the same neighbours, two of them in the other order
RowB == [j \in 1..n_neighbors |-> IF j = 2 THEN 2 ELSE IF j = 3 THEN 1 ELSE j - 1]
\* another farthest neighbour
RowC == [j \in 1..n_neighbors |-> IF j = n_neighbors THEN n_neighbors ELSE j - 1]
NeighbourRows == {RowA, RowB, RowC}
\* what kneighbors can return as its index array
IndexArrays == [1..NQuery -> NeighbourRows]

RECURSIVE Insert(_, _)
Insert(x, sorted) ==
    IF sorted = <<>> THEN <<x>>
    ELSE IF x <= Head(sorted) THEN <<x>> \o sorted
    ELSE <<Head(sorted)>> \o Insert(x, Tail(sorted))

RECURSIVE SortRow(_)
SortRow(row) ==
    IF row = <<>> THEN <<>> ELSE Insert(Head(row), SortRow(Tail(row)))

\* np.sort(I, axis=1): every row sorted ascending
np_sort_axis1(I) == [i \in 1..Len(I) |-> SortRow(I[i])]

Min(a, b) == IF a <= b THEN a ELSE b

\* [list(map(lambda x, y: x - y, ii, jj)) for ii, jj in zip(sk_sorted, cuml_sorted)]
\* : a Python list of lists
knn_diff(sk_sorted, cuml_sorted) ==
    [i \in 1..Min(Len(sk_sorted), Len(cuml_sorted)) |->
        [j \in 1..Min(Len(sk_sorted[i]), Len(cuml_sorted[i])) |->
            sk_sorted[i][j] - cuml_sorted[i][j]]]

\* diff != 0 for a Python list diff: a list never equals an int, whatever it holds
PyListNeInt(lst, n) == TRUE

\* a bool used as a list index is the int 1 or 0 (0-based)
PyBoolAsIndex(b) == IF b THEN 1 ELSE 0

\* (len(diff[diff != 0]) / n_samples) < 1e-9, that is len * 10^9 < n_samples,
\* that is len <= (n_samples - 1) div 10^9 (kept within 32-bit integers)
knn_passed(diff) ==
    Len(diff[PyBoolAsIndex(PyListNeInt(diff, 0)) + 1])
        <= (n_samples - 1) \div (10 ^ 9)

\* scores are counted in units of 1/ScoreScale
ScoreScale == 2 * (10 ^ 4)
\* threshold = 1e-4
kmeans_threshold == ScoreScale \div (10 ^ 4)
\* what adjusted_rand_score can return: the scores from 1.0 downwards
Scores == (ScoreScale - ScoreSpan)..ScoreScale

\* passed = (cuml_score - sk_score) < threshold
km_passed(cuml_score, sk_score, threshold) ==
    (cuml_score - sk_score) < threshold

\* raw predictions of a model: one probability per validation row, in units
\* of 1/PredScale
PredScale == 2 * HalfSteps
RawPredictions == [1..NRows -> 0..PredScale]

around_half_up(p) ==
    IF 2 * (p % PredScale) < PredScale THEN p \div PredScale
    ELSE (p \div PredScale) + 1

\* np.around(p): to the nearest integer, halves to the even one
np_around(p) ==
    LET q == p \div PredScale
        rem == p % PredScale
    IN  IF 2 * rem < PredScale THEN q
        ELSE IF 2 * rem > PredScale THEN q + 1
        ELSE IF q % 2 = 0 THEN q ELSE q + 1

\* threshold=0.50 of ForestInference.load
fil_threshold == PredScale \div 2

\* output_class=True: 1 or 0 depending on whether the raw prediction exceeds
\* the threshold
fil_class(p, threshold) == IF p > threshold THEN 1 ELSE 0

\* number of elements of an array of the given shape
RECURSIVE ArraySize(_)
ArraySize(shape) ==
    IF shape = <<>> THEN 1 ELSE Head(shape) * ArraySize(Tail(shape))

\* what np.ones / cp.ones returns: an array of the shape, every element 1
ones(shape) == [shape |-> shape, size |-> ArraySize(shape), fill |-> 1]
NoOnes == [shape |-> <<>>, size |-> 0, fill |-> 0]

\* an array: its type ("numpy", "cupy", "dask", or "" while unbound); for a
\* Dask array the type of the array it wraps (chunk) and the asarray argument
\* from_array was given ("False", or "default" when the call passes none)
Array(type, chunk, asarray) == [type |-> type, chunk |-> chunk, asarray |-> asarray]
NoArray == Array("", "", "")
ArrayNames == {"x", "y", "d", "dx", "dy"}

\* the result u, s, v of an svd call: the library whose svd ran (impl), the
\* type of the arrays it works on (chunk), whether the values are computed,
\* how long computing them took (dur) and the statement that computed them (at)
NoSvd == [impl |-> "", chunk |-> "", computed |-> FALSE, dur |-> 0, at |-> 0]

\* NumPy before the __array_function__ protocol: np.linalg.svd converts its
\* argument and runs NumPy's own svd
svd_impl_nodispatch(module, arr) ==
    IF module = "da" THEN "dask" ELSE "numpy"

\* the svd that runs: da.linalg.svd is Dask's; np.linalg.svd dispatches on the
\* type of its argument (the __array_function__ protocol)
svd_impl(module, arr) ==
    IF module = "da" THEN "dask" ELSE arr.type

\* rows of the data matrix X (the csv file has 768)
XRows == 2
\* in the score vectors tried besides the printed one, every score is one of
\* 1..ScoreLevels
ScoreLevels == 2

\* X = array[:,0:8]: the first 8 columns are the features
NFeatures == 8
\* SelectKBest(score_func=f_classif, k=4)
SelectKBest_k == 4

\* the data as read from the csv file: entry j of row i stands for itself
X_data == [i \in 1..XRows |-> [j \in 1..NFeatures |-> 10 * i + j]]

\* the scores the notebook printed, in thousandths
PrintedScores == <<39670, 213162, 3257, 4304, 13281, 71772, 23871, 46141>>

\* score vectors that rise from feature to feature, through 1..ScoreLevels
RisingScores ==
    {v \in [1..NFeatures -> 1..ScoreLevels] :
        \A j \in 1..(NFeatures - 1) : v[j] <= v[j + 1]}

\* the vector v, started r features later
Rotated(v, r) == [j \in 1..Len(v) |-> v[((j + r - 1) % Len(v)) + 1]]

\* what f_classif can score the features with: the printed scores, and the
\* rising vectors started at any feature
ScoreVectors ==
    {PrintedScores}
    \cup {Rotated(v, r) : v \in RisingScores, r \in 0..(NFeatures - 1)}

\* position of feature j in np.argsort(scores, kind="mergesort"): ascending,
\* equal scores in index order
ArgsortPosition(scores, j) ==
    Cardinality({i \in 1..Len(scores) :
                    \/ scores[i] < scores[j]
                    \/ scores[i] = scores[j] /\ i < j})

support_mask_lowest(scores, kbest) ==
    {j \in 1..Len(scores) : ArgsortPosition(scores, j) < kbest}

\* SelectKBest: the mask of the selected features, the last k of the argsort
support_mask(scores, kbest) ==
    {j \in 1..Len(scores) : ArgsortPosition(scores, j) >= Len(scores) - kbest}

\* the features of the set S, in index order
RECURSIVE ColumnsOf(_, _)
ColumnsOf(S, n) ==
    IF n = 0 THEN <<>>
    ELSE ColumnsOf(S, n - 1) \o (IF n \in S THEN <<n>> ELSE <<>>)

\* X[:, mask]: the columns of the mask, in their order in X
select_columns(X, mask) ==
    [i \in 1..Len(X) |->
        [c \in 1..Cardinality(mask) |-> X[i][ColumnsOf(mask, NFeatures)[c]]]]

\* a fitted selector: the scores and k; an empty score vector for a fit that
\* is no SelectKBest
NoFit == [scores |-> <<>>, kbest |-> 0]

(***************************************************************************)
(* The disk.                                                               *)
(***************************************************************************)
\* input files the notebooks expect beside them
InputFiles == {"pima-indians-diabetes.csv"}

\* the paths a notebook's statements write: the literals bound to the name
\* that save_model is given
PathsWritten(n) ==
    IF \E i \in 1..Len(Prog(n)) : Prog(n)[i].k = "save_model"
    THEN {Prog(n)[i].a : i \in {j \in 1..Len(Prog(n)) :
                                 /\ Prog(n)[j].k = "path"
                                 /\ "model_path" \in Prog(n)[j].w}}
    ELSE {}

\* a model file left by an earlier session
StaleModel == [i \in 1..NRows |-> 0]

\* the disk when a kernel starts: the input files, and what earlier sessions
\* of the notebooks in S left behind
DiskAfter(S) ==
    LET left == UNION {PathsWritten(n) : n \in S}
    IN  [p \in InputFiles \cup left |->
            IF p \in left
            THEN [content |-> StaleModel,
                  writer |-> CHOOSE n \in S : p \in PathsWritten(n)]
            ELSE [content |-> <<>>, writer |-> ""]]

(***************************************************************************)
(* The kernel.                                                             *)
(***************************************************************************)
NoExc == [type |-> "", by |-> "", ln |-> 0]
NoOut == [what |-> "", num |-> 0, den |-> 1]
NoRead == [path |-> "", writer |-> ""]

MemInit ==
    [s |-> 0, e |-> 0, cpu_time |-> 0, gpu_time |-> 0,
     I_sk |-> <<>>, I_cuml |-> <<>>, sk_sorted |-> <<>>, cuml_sorted |-> <<>>,
     diff |-> <<>>, passed |-> FALSE,
     cuml_score |-> 0, sk_score |-> 0, threshold |-> 0,
     model_path |-> "", filename |-> "",
     bst |-> <<>>, xgboost_model |-> <<>>, xgb_preds |-> <<>>,
     trained_model_preds |-> <<>>,
     fm |-> [model |-> <<>>, output_class |-> FALSE, threshold |-> 0],
     fil_preds |-> <<>>,
     arrays |-> [n \in ArrayNames |-> NoArray],
     usv |-> NoSvd,
     cell_t0 |-> 0, cell_pc |-> 0,
     x_cpu_created |-> NoOnes, x_gpu_created |-> NoOnes,
     X |-> <<>>, test_k |-> 0, fit |-> NoFit, features |-> <<>>]

Init ==
    /\ nb \in Notebooks
    /\ pc = 1
    /\ status = "running"
    /\ exc = NoExc
    /\ bound = {}
    /\ frame = <<>>
    /\ clock = 0
    /\ gpuPending = 0
    /\ mem = MemInit
    /\ np_elapsed = 0
    /\ out = NoOut
    /\ disk \in {DiskAfter(S) : S \in SUBSET Notebooks}
    /\ written = {}
    /\ lastRead = NoRead

Cur == Prog(nb)[pc]

\* the statement that ran last (pc > 1)
Last == Prog(nb)[pc - 1]

\* name lookup: the local frame, then the globals
Visible == bound \cup (IF frame = <<>> THEN {} ELSE frame[1])

\* kinds that call into a third-party library, which may raise
LibKinds ==
    {"import", "libcall", "np_op", "cp_op", "sync", "kneighbors", "allclose",
     "np_sort", "ari", "xgb_train", "save_model", "xgb_predict", "around",
     "fil_load", "fil_predict", "read_csv",
     "new_array", "from_array", "svd", "compute", "np_ones", "cp_ones",
     "slice_X", "skb_new", "skb_fit", "skb_transform", "other_fit"}

\* a file the library cannot load: missing, or not a saved model
Unloadable(path) ==
    \/ path \notin DOMAIN disk
    \/ Len(disk[path].content) # NRows

Exc(type, by) == [type |-> type, by |-> by, ln |-> Cur.ln]

\* the exceptions the next statement can raise
Raisable ==
    IF ~(Cur.r \subseteq Visible)
    THEN {Exc("NameError", "interpreter")}
    ELSE (IF Cur.k \in LibKinds THEN {Exc("LibraryError", "library")} ELSE {})
         \cup
         (IF Cur.k = "print_speedup" /\ mem.gpu_time = 0
          THEN {Exc("ZeroDivisionError", "interpreter")} ELSE {})
         \cup
         (IF Cur.k = "knn_passed" /\ Len(mem.diff) < 2
          THEN {Exc("IndexError", "interpreter")} ELSE {})
         \cup
         (IF Cur.k = "check_xgb" THEN {Exc("ImportError", "notebook")} ELSE {})

\* the statement must raise: it cannot complete in this state
MustRaise ==
    \/ ~(Cur.r \subseteq Visible)
    \/ Cur.k = "print_speedup" /\ mem.gpu_time = 0
    \/ Cur.k = "knn_passed" /\ Len(mem.diff) < 2
    \/ Cur.k = "fil_load" /\ Unloadable(mem.model_path)
    \/ Cur.k = "read_csv" /\ mem.filename \notin DOMAIN disk

CanRun(kinds) ==
    /\ status = "running"
    /\ pc <= Len(Prog(nb))
    /\ Cur.k \in kinds
    /\ ~MustRaise

\* the statement completes: its names are bound, the next statement is up
Complete ==
    /\ pc' = pc + 1
    /\ status' = IF pc + 1 > Len(Prog(nb)) THEN "done" ELSE "running"
    /\ IF frame = <<>>
       THEN bound' = bound \cup Cur.w /\ frame' = frame
       ELSE frame' = <<frame[1] \cup Cur.w>> /\ bound' = bound
    /\ UNCHANGED <<nb, exc>>

\* import, plain assignment, def, expression, library call with no modelled value
ExecBind ==
    /\ CanRun({"import", "assign", "libcall", "def", "expr"})
    /\ Complete
    /\ UNCHANGED <<clock, gpuPending, mem, np_elapsed, out, disk, written, lastRead>>

\* name = 'a path literal'
ExecPath ==
    /\ CanRun({"path"})
    /\ mem' = IF "model_path" \in Cur.w
              THEN [mem EXCEPT !.model_path = Cur.a]
              ELSE [mem EXCEPT !.filename = Cur.a]
    /\ Complete
    /\ UNCHANGED <<clock, gpuPending, np_elapsed, out, disk, written, lastRead>>

\* a helper function is called: its parameters are the locals of a new frame
ExecCall ==
    /\ CanRun({"call"})
    /\ frame' = <<Cur.w>>
    /\ pc' = pc + 1
    /\ UNCHANGED <<nb, status, exc, bound, clock, gpuPending, mem, np_elapsed,
                   out, disk, written, lastRead>>

\* return local: the frame is dropped and the caller binds the value
ExecReturn ==
    /\ CanRun({"return"})
    /\ frame' = <<>>
    /\ bound' = bound \cup Cur.w
    /\ mem' = IF Cur.a = "bst"
              THEN [mem EXCEPT !.xgboost_model = mem.bst]
              ELSE [mem EXCEPT !.trained_model_preds = mem.xgb_preds]
    /\ pc' = pc + 1
    /\ status' = IF pc + 1 > Len(Prog(nb)) THEN "done" ELSE "running"
    /\ UNCHANGED <<nb, exc, clock, gpuPending, np_elapsed, out, disk, written,
                   lastRead>>

\* s = time.time()
ExecTimeS ==
    /\ CanRun({"time_s"})
    /\ mem' = [mem EXCEPT !.s = clock]
    /\ Complete
    /\ UNCHANGED <<clock, gpuPending, np_elapsed, out, disk, written, lastRead>>

\* e = time.time()
ExecTimeE ==
    /\ CanRun({"time_e"})
    /\ mem' = [mem EXCEPT !.e = clock]
    /\ np_elapsed' = IF Cur.a = "cpu" THEN clock - mem.s ELSE np_elapsed
    /\ Complete
    /\ UNCHANGED <<clock, gpuPending, out, disk, written, lastRead>>

\* a NumPy operation blocks the kernel until it is done
ExecNumpyOp ==
    /\ CanRun({"np_op"})
    /\ \E d \in 0..MaxDur : clock' = clock + d
    /\ Complete
    /\ UNCHANGED <<gpuPending, mem, np_elapsed, out, disk, written, lastRead>>

\* a CuPy operation enqueues a kernel on the null stream and returns
ExecCupyOp ==
    /\ CanRun({"cp_op"})
    /\ gpuPending' = gpuPending + 1
    /\ Complete
    /\ UNCHANGED <<clock, mem, np_elapsed, out, disk, written, lastRead>>

\* x_cpu = np.ones(shape): the array is allocated and filled when the call
\* returns.  x_cpu_created is the array as created (later in-place arithmetic
\* on its values is not followed)
ExecNumpyOnes ==
    /\ CanRun({"np_ones"})
    /\ \E d \in 0..MaxDur : clock' = clock + d
    /\ mem' = [mem EXCEPT !.x_cpu_created = ones(Cur.shape)]
    /\ Complete
    /\ UNCHANGED <<gpuPending, np_elapsed, out, disk, written, lastRead>>

\* x_gpu = cp.ones(shape): the fill kernel is enqueued on the null stream
ExecCupyOnes ==
    /\ CanRun({"cp_ones"})
    /\ gpuPending' = gpuPending + 1
    /\ mem' = [mem EXCEPT !.x_gpu_created = ones(Cur.shape)]
    /\ Complete
    /\ UNCHANGED <<clock, np_elapsed, out, disk, written, lastRead>>

\* the GPU completes the oldest kernel of the stream
GpuKernelDone ==
    /\ status = "running"
    /\ gpuPending > 0
    /\ gpuPending' = gpuPending - 1
    /\ \E d \in 0..MaxDur : clock' = clock + d
    /\ UNCHANGED <<nb, pc, status, exc, bound, frame, mem, np_elapsed,
                   out, disk, written, lastRead>>

\* cp.cuda.Stream.null.synchronize() returns once the stream is empty
ExecSynchronize ==
    /\ CanRun({"sync"})
    /\ gpuPending = 0
    /\ Complete
    /\ UNCHANGED <<clock, gpuPending, mem, np_elapsed, out, disk, written, lastRead>>

\* cpu_time = e - s  /  gpu_time = e - s
ExecElapsed ==
    /\ CanRun({"elapsed"})
    /\ mem' = IF Cur.a = "cpu_time"
              THEN [mem EXCEPT !.cpu_time = mem.e - mem.s]
              ELSE [mem EXCEPT !.gpu_time = mem.e - mem.s]
    /\ Complete
    /\ UNCHANGED <<clock, gpuPending, np_elapsed, out, disk, written, lastRead>>

\* print(cpu_time)  /  print(gpu_time)
ExecPrintTime ==
    /\ CanRun({"print_time"})
    /\ out' = [what |-> Cur.a,
               num |-> IF Cur.a = "cpu_time" THEN mem.cpu_time ELSE mem.gpu_time,
               den |-> 1]
    /\ Complete
    /\ UNCHANGED <<clock, gpuPending, mem, np_elapsed, disk, written, lastRead>>

\* print(cpu_time/gpu_time)
ExecPrintSpeedup ==
    /\ CanRun({"print_speedup"})
    /\ out' = [what |-> "speedup", num |-> mem.cpu_time, den |-> mem.gpu_time]
    /\ Complete
    /\ UNCHANGED <<clock, gpuPending, mem, np_elapsed, disk, written, lastRead>>

\* D, I = knn.kneighbors(data[:n_query], n_neighbors)
ExecKneighbors ==
    /\ CanRun({"kneighbors"})
    /\ \E I \in IndexArrays :
          mem' = IF Cur.a = "sk" THEN [mem EXCEPT !.I_sk = I]
                 ELSE [mem EXCEPT !.I_cuml = I]
    /\ Complete
    /\ UNCHANGED <<clock, gpuPending, np_elapsed, out, disk, written, lastRead>>

\* passed = np.allclose(D_sk, D_cuml.values, atol=1e-3)
ExecAllclose ==
    /\ CanRun({"allclose"})
    /\ \E b \in BOOLEAN : mem' = [mem EXCEPT !.passed = b]
    /\ Complete
    /\ UNCHANGED <<clock, gpuPending, np_elapsed, out, disk, written, lastRead>>

\* sk_sorted = np.sort(I_sk, axis=1)  /  cuml_sorted = np.sort(I_cuml.values, axis=1)
ExecNpSort ==
    /\ CanRun({"np_sort"})
    /\ mem' = IF Cur.a = "sk"
              THEN [mem EXCEPT !.sk_sorted = np_sort_axis1(mem.I_sk)]
              ELSE [mem EXCEPT !.cuml_sorted = np_sort_axis1(mem.I_cuml)]
    /\ Complete
    /\ UNCHANGED <<clock, gpuPending, np_elapsed, out, disk, written, lastRead>>

\* diff = [list(map(..)) for ii, jj in zip(sk_sorted, cuml_sorted)]
ExecKnnDiff ==
    /\ CanRun({"knn_diff"})
    /\ mem' = [mem EXCEPT !.diff = knn_diff(mem.sk_sorted, mem.cuml_sorted)]
    /\ Complete
    /\ UNCHANGED <<clock, gpuPending, np_elapsed, out, disk, written, lastRead>>

\* passed = (len(diff[diff!=0]) / n_samples) < 1e-9
ExecKnnPassed ==
    /\ CanRun({"knn_passed"})
    /\ mem' = [mem EXCEPT !.passed = knn_passed(mem.diff)]
    /\ Complete
    /\ UNCHANGED <<clock, gpuPending, np_elapsed, out, disk, written, lastRead>>

\* print('compare ..: .. %s' % ('equal' if passed else 'NOT equal'))
ExecPrintPassed ==
    /\ CanRun({"print_passed"})
    /\ out' = [what |-> Cur.a, num |-> IF mem.passed THEN 1 ELSE 0, den |-> 1]
    /\ Complete
    /\ UNCHANGED <<clock, gpuPending, mem, np_elapsed, disk, written, lastRead>>

\* score = adjusted_rand_score(host_labels, labels_)
ExecAri ==
    /\ CanRun({"ari"})
    /\ \E x \in Scores :
          mem' = IF Cur.a = "cuml_score" THEN [mem EXCEPT !.cuml_score = x]
                 ELSE [mem EXCEPT !.sk_score = x]
    /\ Complete
    /\ UNCHANGED <<clock, gpuPending, np_elapsed, out, disk, written, lastRead>>

\* threshold = 1e-4
ExecThreshold ==
    /\ CanRun({"threshold"})
    /\ mem' = [mem EXCEPT !.threshold = kmeans_threshold]
    /\ Complete
    /\ UNCHANGED <<clock, gpuPending, np_elapsed, out, disk, written, lastRead>>

\* passed = (cuml_score - sk_score) < threshold
ExecKmPassed ==
    /\ CanRun({"km_passed"})
    /\ mem' = [mem EXCEPT !.passed =
                  km_passed(mem.cuml_score, mem.sk_score, mem.threshold)]
    /\ Complete
    /\ UNCHANGED <<clock, gpuPending, np_elapsed, out, disk, written, lastRead>>

\* if has_xgboost(): import xgboost as xgb   (the else branch raises)
ExecCheckXgb ==
    /\ CanRun({"check_xgb"})
    /\ Complete
    /\ UNCHANGED <<clock, gpuPending, mem, np_elapsed, out, disk, written, lastRead>>

\* bst = xgb.train(params, dtrain, num_rounds)
ExecXgbTrain ==
    /\ CanRun({"xgb_train"})
    /\ \E m \in RawPredictions : mem' = [mem EXCEPT !.bst = m]
    /\ Complete
    /\ UNCHANGED <<clock, gpuPending, np_elapsed, out, disk, written, lastRead>>

\* bst.save_model(model_path)
ExecSaveModel ==
    /\ CanRun({"save_model"})
    /\ disk' = [p \in DOMAIN disk \cup {mem.model_path} |->
                   IF p = mem.model_path
                   THEN [content |-> mem.bst, writer |-> nb]
                   ELSE disk[p]]
    /\ written' = written \cup {mem.model_path}
    /\ Complete
    /\ UNCHANGED <<clock, gpuPending, mem, np_elapsed, out, lastRead>>

\* xgb_preds = xgb_model.predict(dvalidation); xgb_model is the argument
\* xgboost_model of the call
ExecXgbPredict ==
    /\ CanRun({"xgb_predict"})
    /\ mem' = [mem EXCEPT !.xgb_preds = mem.xgboost_model]
    /\ Complete
    /\ UNCHANGED <<clock, gpuPending, np_elapsed, out, disk, written, lastRead>>

\* xgb_preds = np.around(xgb_preds)
ExecAround ==
    /\ CanRun({"around"})
    /\ mem' = [mem EXCEPT !.xgb_preds =
                  [i \in 1..Len(mem.xgb_preds) |-> np_around(mem.xgb_preds[i])]]
    /\ Complete
    /\ UNCHANGED <<clock, gpuPending, np_elapsed, out, disk, written, lastRead>>

\* fm = ForestInference.load(filename=model_path, output_class=True, threshold=0.50, ..)
ExecFilLoad ==
    /\ CanRun({"fil_load"})
    /\ mem' = [mem EXCEPT !.fm = [model |-> disk[mem.model_path].content,
                                  output_class |-> TRUE,
                                  threshold |-> fil_threshold]]
    /\ lastRead' = [path |-> mem.model_path,
                    writer |-> disk[mem.model_path].writer]
    /\ Complete
    /\ UNCHANGED <<clock, gpuPending, np_elapsed, out, disk, written>>

\* fil_preds = fm.predict(X_validation)
ExecFilPredict ==
    /\ CanRun({"fil_predict"})
    /\ mem' = [mem EXCEPT !.fil_preds =
                  [i \in 1..Len(mem.fm.model) |->
                      IF mem.fm.output_class
                      THEN fil_class(mem.fm.model[i], mem.fm.threshold)
                      ELSE mem.fm.model[i]]]
    /\ Complete
    /\ UNCHANGED <<clock, gpuPending, np_elapsed, out, disk, written, lastRead>>

\* print(".. the same : ", (trained_model_preds == fil_preds).all())
ExecPrintSame ==
    /\ CanRun({"print_same"})
    /\ out' = [what |-> Cur.a,
               num |-> IF \A i \in 1..Len(mem.fil_preds) :
                             mem.trained_model_preds[i] = mem.fil_preds[i]
                       THEN 1 ELSE 0,
               den |-> 1]
    /\ Complete
    /\ UNCHANGED <<clock, gpuPending, mem, np_elapsed, disk, written, lastRead>>

\* dataframe = read_csv(filename, names=names)
ExecReadCsv ==
    /\ CanRun({"read_csv"})
    /\ lastRead' = [path |-> mem.filename, writer |-> disk[mem.filename].writer]
    /\ Complete
    /\ UNCHANGED <<clock, gpuPending, mem, np_elapsed, out, disk, written>>

\* the one name a statement binds
Target == CHOOSE n \in Cur.w : TRUE

\* the array argument of from_array or svd: the name read that is no module
ArrayArg == CHOOSE n \in Cur.r \ {"np", "da", "cupy", "dask"} : TRUE

\* %%time: the cell magic notes the time before the cell's code runs
ExecMagicTime ==
    /\ CanRun({"magic_time"})
    /\ mem' = [mem EXCEPT !.cell_t0 = clock, !.cell_pc = pc]
    /\ Complete
    /\ UNCHANGED <<clock, gpuPending, np_elapsed, out, disk, written, lastRead>>

\* the %%time cell has run: "Wall time: .." is printed
ExecWallTime ==
    /\ CanRun({"wall_time"})
    /\ out' = [what |-> "Wall time", num |-> clock - mem.cell_t0, den |-> 1]
    /\ Complete
    /\ UNCHANGED <<clock, gpuPending, mem, np_elapsed, disk, written, lastRead>>

\* x = np.random.random(..), x = cupy.random.random(..), y = cupy.array(x), ..
ExecNewArray ==
    /\ CanRun({"new_array"})
    /\ mem' = [mem EXCEPT !.arrays[Target] = Array(Cur.a, "", "")]
    /\ Complete
    /\ UNCHANGED <<clock, gpuPending, np_elapsed, out, disk, written, lastRead>>

\* d = da.from_array(x, chunks=.., [asarray=False]): a Dask array wrapping x
ExecFromArray ==
    /\ CanRun({"from_array"})
    /\ mem' = [mem EXCEPT !.arrays[Target] =
                  Array("dask", mem.arrays[ArrayArg].type, Cur.a)]
    /\ Complete
    /\ UNCHANGED <<clock, gpuPending, np_elapsed, out, disk, written, lastRead>>

\* u, s, v = np.linalg.svd(a) / da.linalg.svd(a).  Dask's svd only builds the
\* task graph; NumPy's and CuPy's compute the values before they return.
ExecSvd ==
    /\ CanRun({"svd"})
    /\ LET arr == mem.arrays[ArrayArg]
           impl == svd_impl(Cur.a, arr)
       IN  IF impl = "dask"
           THEN /\ mem' = [mem EXCEPT !.usv =
                              [impl |-> "dask", chunk |-> arr.chunk,
                               computed |-> FALSE, dur |-> 0, at |-> 0]]
                /\ clock' = clock
           ELSE \E d \in 0..MaxDur :
                   /\ mem' = [mem EXCEPT !.usv =
                                 [impl |-> impl, chunk |-> arr.type,
                                  computed |-> TRUE, dur |-> d, at |-> pc]]
                   /\ clock' = clock + d
    /\ Complete
    /\ UNCHANGED <<gpuPending, np_elapsed, out, disk, written, lastRead>>

\* u, s, v = dask.compute(u, s, v): the deferred values are computed now;
\* values already computed are returned as they are
ExecCompute ==
    /\ CanRun({"compute"})
    /\ IF mem.usv.computed
       THEN UNCHANGED <<mem, clock>>
       ELSE \E d \in 0..MaxDur :
               /\ mem' = [mem EXCEPT !.usv.computed = TRUE, !.usv.dur = d,
                                     !.usv.at = pc]
               /\ clock' = clock + d
    /\ Complete
    /\ UNCHANGED <<gpuPending, np_elapsed, out, disk, written, lastRead>>

\* X = array[:,0:8]
ExecSliceX ==
    /\ CanRun({"slice_X"})
    /\ mem' = [mem EXCEPT !.X = X_data]
    /\ Complete
    /\ UNCHANGED <<clock, gpuPending, np_elapsed, out, disk, written, lastRead>>

\* test = SelectKBest(score_func=f_classif, k=4)
ExecSkbNew ==
    /\ CanRun({"skb_new"})
    /\ mem' = [mem EXCEPT !.test_k = SelectKBest_k]
    /\ Complete
    /\ UNCHANGED <<clock, gpuPending, np_elapsed, out, disk, written, lastRead>>

\* fit = test.fit(X, Y): f_classif scores every feature
ExecSkbFit ==
    /\ CanRun({"skb_fit"})
    /\ \E scores \in ScoreVectors :
          mem' = [mem EXCEPT !.fit = [scores |-> scores, kbest |-> mem.test_k]]
    /\ Complete
    /\ UNCHANGED <<clock, gpuPending, np_elapsed, out, disk, written, lastRead>>

\* features = fit.transform(X)
ExecSkbTransform ==
    /\ CanRun({"skb_transform"})
    /\ mem' = [mem EXCEPT !.features =
                  select_columns(mem.X, support_mask(mem.fit.scores, mem.fit.kbest))]
    /\ Complete
    /\ UNCHANGED <<clock, gpuPending, np_elapsed, out, disk, written, lastRead>>

\* fit = rfe.fit(X, Y) / fit = pca.fit(X): fit is bound to another estimator
ExecOtherFit ==
    /\ CanRun({"other_fit"})
    /\ mem' = [mem EXCEPT !.fit = NoFit]
    /\ Complete
    /\ UNCHANGED <<clock, gpuPending, np_elapsed, out, disk, written, lastRead>>

\* an exception is raised, nothing catches it, the run stops at this statement
RaiseException ==
    /\ status = "running"
    /\ pc <= Len(Prog(nb))
    /\ \E x \in Raisable : exc' = x
    /\ status' = "error"
    /\ UNCHANGED <<nb, pc, bound, frame, clock, gpuPending, mem,
                   np_elapsed, out, disk, written, lastRead>>

Next ==
    \/ ExecBind
    \/ ExecPath
    \/ ExecCall
    \/ ExecReturn
    \/ ExecTimeS
    \/ ExecTimeE
    \/ ExecNumpyOp
    \/ ExecCupyOp
    \/ ExecNumpyOnes
    \/ ExecCupyOnes
    \/ GpuKernelDone
    \/ ExecSynchronize
    \/ ExecElapsed
    \/ ExecPrintTime
    \/ ExecPrintSpeedup
    \/ ExecKneighbors
    \/ ExecAllclose
    \/ ExecNpSort
    \/ ExecKnnDiff
    \/ ExecKnnPassed
    \/ ExecPrintPassed
    \/ ExecAri
    \/ ExecThreshold
    \/ ExecKmPassed
    \/ ExecCheckXgb
    \/ ExecXgbTrain
    \/ ExecSaveModel
    \/ ExecXgbPredict
    \/ ExecAround
    \/ ExecFilLoad
    \/ ExecFilPredict
    \/ ExecPrintSame
    \/ ExecReadCsv
    \/ ExecMagicTime
    \/ ExecWallTime
    \/ ExecNewArray
    \/ ExecFromArray
    \/ ExecSvd
    \/ ExecCompute
    \/ ExecSliceX
    \/ ExecSkbNew
    \/ ExecSkbFit
    \/ ExecSkbTransform
    \/ ExecOtherFit
    \/ RaiseException

Spec == Init /\ [][Next]_vars

(***************************************************************************)
(* Properties.                                                             *)
(***************************************************************************)
\* the kernel stands at a statement (it has not run off the end of the notebook)
AtStatement == pc <= Len(Prog(nb))

\* the statement that ran last is of kind k with argument a
LastWas(k, a) == pc > 1 /\ Last.k = k /\ Last.a = a

\* C1: in every GPU timing block of Intro_to_CuPy the stream has been
\* synchronized when the end timestamp e is read, and it still is when
\* gpu_time = e - s is taken: no GPU work of the block is pending then.
SynchronizedBeforeGpuTimestamp ==
    nb = "Intro_to_CuPy" =>
        /\ (status = "running" /\ AtStatement /\ Cur.k = "time_e" /\ Cur.a = "gpu")
              => gpuPending = 0
        /\ (LastWas("time_e", "gpu") \/ LastWas("elapsed", "gpu_time"))
              => gpuPending = 0

\* the end timestamp of the "Working with Multiple Arrays" GPU block has been
\* read, after GPU work that took time
GpuTimestampAfterGpuWork ==
    /\ nb = "Intro_to_CuPy"
    /\ LastWas("time_e", "gpu")
    /\ Last.ln = 188
    /\ mem.e > mem.s

\* C2: whenever Intro_to_CuPy prints cpu_time, or the speed-up
\* cpu_time/gpu_time, the CPU time printed is the e - s of the NumPy operation
\* timed last, that is the one of the same block.
PrintedCpuTimeIsOfSameBlock ==
    (nb = "Intro_to_CuPy"
        /\ (LastWas("print_time", "cpu_time") \/ LastWas("print_speedup", "")))
    => out.num = np_elapsed

\* the 'multiply by 5' block at n = 1000,00,00 has printed a CPU time that is
\* not the time of its own NumPy operation
StaleCpuTimePrinted ==
    /\ nb = "Intro_to_CuPy"
    /\ LastWas("print_time", "cpu_time")
    /\ Last.ln = 338
    /\ out.num # np_elapsed

\* entries at which two index arrays of the same shape differ
DifferingEntries(A, B) ==
    Cardinality({ij \in (1..Len(A)) \X (1..n_neighbors) :
                    A[ij[1]][ij[2]] # B[ij[1]][ij[2]]})

\* C3: the k-NN index check prints 'equal' exactly when the fraction of
\* differing entries of the two row-sorted index arrays is below 1e-9.
IndexCheckEqualIffSameIndices ==
    (nb = "nearest_neighbors_demo" /\ LastWas("print_passed", "knn_indexes"))
    => (out.num = 1
          <=> DifferingEntries(mem.sk_sorted, mem.cuml_sorted)
                 <= (Len(mem.sk_sorted) * n_neighbors - 1) \div (10 ^ 9))

\* both models returned the same indices for every query row and the check
\* printed 'NOT equal'
SameIndicesPrintedNotEqual ==
    /\ nb = "nearest_neighbors_demo"
    /\ LastWas("print_passed", "knn_indexes")
    /\ mem.I_sk = mem.I_cuml
    /\ out.num = 0

\* C4: the k-means check prints 'equal' only when the two adjusted Rand
\* scores are within the threshold of each other, |cuml_score - sk_score| < 1e-4.
KMeansEqualOnlyWithinThreshold ==
    (nb = "kmeans_demo" /\ LastWas("print_passed", "kmeans") /\ out.num = 1)
    => /\ mem.cuml_score - mem.sk_score < mem.threshold
       /\ mem.sk_score - mem.cuml_score < mem.threshold

\* the cuML score is lower than the scikit-learn score by the threshold or
\* more and the check printed 'equal'
LowerCumlScorePrintedEqual ==
    /\ nb = "kmeans_demo"
    /\ LastWas("print_passed", "kmeans")
    /\ mem.sk_score - mem.cuml_score >= mem.threshold
    /\ out.num = 1

\* C5: for every raw prediction p in [0, 1], 0.5 included, np.around(p) is the
\* label FIL returns with output_class=True and threshold=0.50; so the labels
\* predict_xgboost_model returned and the labels fm.predict returned for the
\* same saved model are elementwise equal.
AroundEqualsFilLabel ==
    /\ \A p \in 0..PredScale : np_around(p) = fil_class(p, fil_threshold)
    /\ (nb = "Forest_Inference_Demo"
           /\ {"trained_model_preds", "fil_preds"} \subseteq bound
           /\ mem.fm.model = mem.xgboost_model)
       => /\ Len(mem.trained_model_preds) = Len(mem.fil_preds)
          /\ \A i \in 1..Len(mem.fil_preds) :
                mem.trained_model_preds[i] = mem.fil_preds[i]

\* both models have predicted, one row at exactly 0.5 and one row above it
BothPredictedWithAHalf ==
    /\ nb = "Forest_Inference_Demo"
    /\ {"trained_model_preds", "fil_preds"} \subseteq bound
    /\ \E i \in 1..NRows : mem.xgboost_model[i] = fil_threshold
    /\ \E i \in 1..NRows : mem.xgboost_model[i] > fil_threshold

\* C6: in the Forest Inference notebook the model is written to model_path
\* before train_xgboost_model returns, ForestInference.load reads that path
\* after this write (it gets the model just trained), and fm.predict runs
\* after the load.
FitSaveLoadInfer ==
    nb = "Forest_Inference_Demo" =>
        /\ "xgboost_model" \in bound =>
              /\ mem.model_path \in written
              /\ disk[mem.model_path].writer = nb
        /\ "fm" \in bound =>
              /\ "xgboost_model" \in bound
              /\ lastRead.path = mem.model_path
              /\ lastRead.path \in written
              /\ mem.fm.model = mem.xgboost_model
        /\ "fil_preds" \in bound => "fm" \in bound

\* fm.predict has run on a model that replaced an older file at model_path
InferredFromFreshModel ==
    /\ nb = "Forest_Inference_Demo"
    /\ "fil_preds" \in bound
    /\ mem.fm.model # StaleModel

\* C7 as stated: every failure that stops a notebook is an exception raised
\* by an underlying library.
OnlyLibrariesRaise ==
    status = "error" => exc.by = "library"

\* C7, amended: no notebook catches an exception, so a failure stops the run
\* at the statement where it occurred; the exception is raised by a library,
\* or it is the ImportError that the 'Check for xgboost' cell raises itself,
\* or the ZeroDivisionError of print(cpu_time/gpu_time) when gpu_time is 0.
FailuresStopAtTheirStatement ==
    status = "error" =>
        /\ AtStatement
        /\ exc.ln = Cur.ln
        /\ \/ exc.by = "library" /\ Cur.k \in LibKinds
           \/ exc.by = "notebook" /\ exc.type = "ImportError" /\ Cur.k = "check_xgb"
           \/ exc.by = "interpreter" /\ exc.type = "ZeroDivisionError"
                 /\ Cur.k = "print_speedup"

\* a notebook was stopped by an exception that one of its own cells raised
StoppedByOwnRaise ==
    /\ status = "error"
    /\ exc.by = "notebook"
    /\ exc.ln = Cur.ln

\* C8: the 'Check for xgboost' cell either completes, and then xgb is bound
\* and the cell raised nothing, or raises ImportError and leaves xgb unbound;
\* while xgb is unbound no statement that reads xgb has completed.
XgboostCheckTwoOutcomes ==
    nb = "Forest_Inference_Demo" =>
        LET chk == CHOOSE i \in 1..Len(Prog(nb)) : Prog(nb)[i].k = "check_xgb"
        IN  /\ pc > chk => "xgb" \in bound /\ exc.ln # Prog(nb)[chk].ln
            /\ (pc = chk /\ status = "error") =>
                  exc.type = "ImportError" /\ "xgb" \notin bound
            /\ "xgb" \notin bound =>
                  \A i \in 1..(pc - 1) : "xgb" \notin Prog(nb)[i].r

\* has_xgboost() was false: the cell raised ImportError, xgb is unbound
XgboostMissing ==
    /\ nb = "Forest_Inference_Demo"
    /\ status = "error"
    /\ exc.type = "ImportError"
    /\ Cur.k = "check_xgb"
    /\ "xgb" \notin bound

\* C9: run once top to bottom, no notebook reads a name before an earlier
\* statement has bound it: the next statement's names are all visible, and no
\* run stops with a NameError.
NoNameReadBeforeBound ==
    /\ exc.type # "NameError"
    /\ (status = "running" /\ AtStatement) => Cur.r \subseteq Visible

\* the RFE cell of the feature selection notebook has read filename, which
\* the first cell bound
FilenameReadInLaterCell ==
    /\ nb = "feature_selection"
    /\ pc > 1
    /\ Last.k = "read_csv"
    /\ Last.ln = 139
    /\ "filename" \in Last.r

\* names bound by the statements of notebook n
BoundBy(n) == UNION {Prog(n)[i].w : i \in 1..Len(Prog(n))}

\* C10: every name a notebook has read is bound by that notebook, and every
\* file it has read is an input file or a file it wrote itself.
NoDataFlowBetweenNotebooks ==
    /\ LET names == BoundBy(nb)
       IN  \A i \in 1..(pc - 1) : Prog(nb)[i].r \subseteq names
    /\ lastRead.writer \in {"", nb}
    /\ lastRead.writer = nb => lastRead.path \in written

\* the Forest Inference notebook has read back the file it wrote
ModelReadBackByItsWriter ==
    /\ nb = "Forest_Inference_Demo"
    /\ lastRead.path = "xgb.model"
    /\ lastRead.writer = nb
    /\ LastWas("fil_load", "")

\* the %%time cell that has just ended holds an svd call
TimedSvdCellEnded ==
    /\ pc > 1
    /\ Last.k = "wall_time"
    /\ \E i \in (mem.cell_pc + 1)..(pc - 2) : Prog(nb)[i].k = "svd"

\* C11: the u, s, v that svd returns for a Dask array hold no computed values
\* until dask.compute is called on them; and when a timed cell with an svd
\* of a Dask array ends, the values have been computed by a dask.compute of
\* that cell, so that the wall time printed covers the computation.
DaskSvdDeferredUntilCompute ==
    nb = "Dask_and__array_function__protocol" =>
        /\ (pc > 1 /\ Last.k = "svd" /\ mem.usv.impl = "dask")
              => ~mem.usv.computed
        /\ (mem.usv.impl = "dask" /\ mem.usv.computed)
              => Prog(nb)[mem.usv.at].k = "compute"
        /\ (TimedSvdCellEnded /\ mem.usv.impl = "dask")
              => /\ mem.usv.computed
                 /\ mem.usv.at > mem.cell_pc
                 /\ out.num >= mem.usv.dur

\* the timed cell np.linalg.svd(dy); dask.compute(u, s, v) has ended, and the
\* computation took time
TimedDaskSvdComputed ==
    /\ nb = "Dask_and__array_function__protocol"
    /\ TimedSvdCellEnded
    /\ Last.ln = 216
    /\ mem.usv.impl = "dask"
    /\ mem.usv.chunk = "cupy"
    /\ mem.usv.dur > 0

\* what u, s, v are: which library's svd produced them, on which arrays, and
\* whether they are computed
SvdResult == <<mem.usv.impl, mem.usv.chunk, mem.usv.computed>>

CupyArraysWrappedWithAsarrayFalse ==
    nb = "Dask_and__array_function__protocol" =>
        \A n \in ArrayNames :
            (mem.arrays[n].type = "dask" /\ mem.arrays[n].chunk = "cupy")
            => mem.arrays[n].asarray = "False"

\* d = da.from_array(x, chunks=(1000, 1000)) has wrapped the CuPy array x
\* without asarray=False
CupyArrayWrappedWithoutAsarray ==
    /\ nb = "Dask_and__array_function__protocol"
    /\ pc > 1
    /\ Last.k = "from_array"
    /\ Last.ln = 47
    /\ mem.arrays["x"].type = "cupy"
    /\ mem.arrays["d"] = Array("dask", "cupy", "default")

\* C14: the 'Array Creation' block creates, with np.ones and with cp.ones, an
\* array of shape (1000, 1000, 100) of one billion elements, all equal to 1.
ArrayCreationMakesOneBillionOnes ==
    (nb = "Intro_to_CuPy" /\ pc > 1 /\ Last.ln \in {81, 88}) =>
        LET created == IF Last.k = "np_ones" THEN mem.x_cpu_created
                       ELSE mem.x_gpu_created
        IN  /\ created.shape = <<1000, 1000, 100>>
            /\ created.fill = 1
            /\ created.size = 10 ^ 9

\* both arrays of the 'Array Creation' block are created, with a hundred
\* million elements each
HundredMillionOnesCreated ==
    /\ nb = "Intro_to_CuPy"
    /\ pc > 1
    /\ Last.k = "cp_ones"
    /\ Last.ln = 88
    /\ mem.x_cpu_created = ones(<<1000, 1000, 100>>)
    /\ mem.x_gpu_created.size = 10 ^ 8

\* the features of S all score at least as high as every other feature
HighestScored(S, scores) ==
    \A i \in S : \A j \in (1..Len(scores)) \ S : scores[i] >= scores[j]

\* C15: SelectKBest with k = 4 keeps 4 features with the highest scores, and
\* the transformed matrix is made of exactly those columns of X, unchanged and
\* in their order in X; for the scores the notebook printed they are the
\* features at indexes 0, 1, 5 and 7 (here counted from 1: 1, 2, 6 and 8).
SelectKBestKeepsHighestScores ==
    (nb = "feature_selection" /\ pc > 1 /\ Last.k = "skb_transform") =>
        /\ \E S \in SUBSET (1..NFeatures) :
              /\ Cardinality(S) = 4
              /\ HighestScored(S, mem.fit.scores)
              /\ Len(mem.features) = Len(mem.X)
              /\ \A i \in 1..Len(mem.X) :
                    mem.features[i] = [c \in 1..4 |-> mem.X[i][ColumnsOf(S, NFeatures)[c]]]
        /\ mem.fit.scores = PrintedScores =>
              \A i \in 1..Len(mem.X) :
                  mem.features[i] =
                      <<mem.X[i][1], mem.X[i][2], mem.X[i][6], mem.X[i][8]>>

\* the features are selected for the scores the notebook printed
PrintedScoresSelected ==
    /\ nb = "feature_selection"
    /\ pc > 1
    /\ Last.k = "skb_transform"
    /\ mem.fit.scores = PrintedScores
    /\ Len(mem.features) = XRows
    /\ Len(mem.features[1]) = 4

====
